---- MODULE Spec2Model ----
(***************************************************************************)
(* The HTTP/SSE gateway of the HPR knowledge base server (server-http.js): *)
(* the circuit breaker, the concurrency and memory gates, the registry of  *)
(* SSE transports and the handlers of /sse, /message and /reset; and the    *)
(* in-memory search of HPRDataLoader (data-loader.js): searchHosts,        *)
(* searchEpisodes and searchTranscripts over the loaded corpus.            *)
(*                                                                         *)
(* Node runs every handler turn to completion on one event loop, so one    *)
(* action is one turn: the synchronous part of a handler together with the *)
(* promise continuations that the same turn's microtask checkpoint runs.   *)
(* The /sse handler has one real suspension point, the await of            *)
(* mcpServer.connect(transport) inside circuitBreaker.execute; its two     *)
(* possible resumptions are ConnectSuccess and ConnectFailure.             *)
(***************************************************************************)
EXTENDS Integers, FiniteSets, Sequences, TLC

(* ------------------------------ constants ------------------------------ *)

\* The source sets 10; the gate is checked here at a smaller maximum so that
\* more connections than the maximum can be attempted.
MAX_CONCURRENT_REQUESTS == 2
REQUEST_TIMEOUT_MS == 60000
MEMORY_THRESHOLD_MB == 450
CIRCUIT_BREAKER_THRESHOLD == 5
CIRCUIT_BREAKER_TIMEOUT_MS == 60000

(* -------------------------------- bounds ------------------------------- *)

\* Connection slots: one more than the maximum, so that the gate can be hit.
NConn == MAX_CONCURRENT_REQUESTS + 1
Conns == 1..NConn
\* A session id that was never registered.
UnknownId == NConn + 1
\* The clock advances MaxTicks times, in steps of TickMs (MaxTimedTicks
\* times where the age of the pending connects is recorded).
TickMs == 60000
MaxTicks == 1
MaxTimedTicks == 2
\* What process.memoryUsage() may report when checkMemory reads it, in MB:
\* the threshold itself and the next value above it.
HeapLevels == {MEMORY_THRESHOLD_MB, MEMORY_THRESHOLD_MB + 1}
\* Caps of the counters that the code leaves unbounded.
MaxFailures == CIRCUIT_BREAKER_THRESHOLD + 1
MaxUnderflow == 1

(* --------------------------------- state ------------------------------- *)

VARIABLES
    activeRequests,       \* let activeRequests
    cbState,              \* circuitBreaker.state
    failures,             \* circuitBreaker.failures
    nextAttempt,          \* circuitBreaker.nextAttempt
    now,                  \* Date.now()
    activeSseTransports,  \* keys of the Map activeSseTransports
    pc,                   \* position of the /sse handler of each connection
    pingInterval,         \* connections whose heartbeat timer is running
    clientGone,           \* connections whose 'close' event has been emitted
    elapsed,              \* time for which the pending connect has run,
                          \* counted up to just past REQUEST_TIMEOUT_MS
    probes,               \* pending calls that were let through in HALF_OPEN
    response,             \* the answer written by the turn that just ran
    turn,                 \* what the turn that just ran read and executed
    hosts,                \* HPRDataLoader.hosts
    episodes,             \* HPRDataLoader.episodes
    transcripts,          \* HPRDataLoader.transcripts, in insertion order
    call,                 \* the search call that was made last
    results               \* what that call returned

vars == <<activeRequests, cbState, failures, nextAttempt, now,
          activeSseTransports, pc, pingInterval, clientGone,
          elapsed, probes, response, turn,
          hosts, episodes, transcripts, call, results>>

\* The state of the gateway and the state of the data loader.
gateway == <<activeRequests, cbState, failures, nextAttempt, now,
             activeSseTransports, pc, pingInterval, clientGone,
             elapsed, probes, response, turn>>
loader == <<hosts, episodes, transcripts, call, results>>

breaker == <<cbState, failures, nextAttempt>>

Responses == {"none", "503 high load", "503 capacity", "503 unavailable",
              "connect failed", "sse established", "reset to CLOSED",
              "already CLOSED", "message handled", "404 no session"}

\* The paths through the /sse handler, as the statements a turn executes:
\* checkMemory throws; checkConcurrency throws; execute throws before it
\* calls fn; execute calls fn and the handler awaits.
PathMemory == <<"checkMemory", "catch">>
PathCapacity == <<"checkMemory", "checkConcurrency", "catch">>
PathCircuit == <<"checkMemory", "checkConcurrency", "activeRequests++",
                 "activeSseTransports.set", "execute", "catch">>
PathAdmit == <<"checkMemory", "checkConcurrency", "activeRequests++",
               "activeSseTransports.set", "execute", "connect">>
Paths == {<<>>, PathMemory, PathCapacity, PathCircuit, PathAdmit}

\* A turn that is not a request: no heap reading, no session id, no
\* statement of the /sse handler.
NoTurn == [heapUsedMB |-> 0, connectionId |-> 0, executed |-> <<>>]

TypeOK ==
    /\ activeRequests \in Int
    /\ cbState \in {"CLOSED", "OPEN", "HALF_OPEN"}
    /\ failures \in Nat
    /\ nextAttempt \in Nat
    /\ now \in Nat
    /\ activeSseTransports \subseteq Conns
    /\ pc \in [Conns -> {"idle", "connecting", "open"}]
    /\ pingInterval \subseteq Conns
    /\ clientGone \subseteq Conns
    /\ elapsed \in [Conns -> 0..(REQUEST_TIMEOUT_MS + 1)]
    /\ probes \subseteq Conns
    /\ response \in Responses
    /\ turn \in [heapUsedMB : {0} \cup HeapLevels,
                 connectionId : {0} \cup Conns \cup {UnknownId},
                 executed : Paths]

\* No search call has been made.
NoCall == [fn |-> "none"]

\* The gateway after start-up.
GatewayInit ==
    /\ activeRequests = 0
    /\ cbState = "CLOSED"
    /\ failures = 0
    /\ nextAttempt = 0
    /\ now = 0
    /\ activeSseTransports = {}
    /\ pc = [c \in Conns |-> "idle"]
    /\ pingInterval = {}
    /\ clientGone = {}
    /\ elapsed = [c \in Conns |-> 0]
    /\ probes = {}
    /\ response = "none"
    /\ turn = NoTurn

\* Nothing of the corpus is looked at by the gateway's own handlers, so it
\* stays empty in their specifications.
Init ==
    /\ hosts = <<>>
    /\ episodes = <<>>
    /\ transcripts = <<>>
    /\ call = NoCall
    /\ results = <<>>
    /\ GatewayInit

(* --------------------------- the three gates --------------------------- *)

CheckMemoryThrows_AtThreshold(heapUsedMB) == heapUsedMB >= MEMORY_THRESHOLD_MB

\* checkMemory: throws when the heap reading is above the threshold.  (The
\* flag memoryWarning only decides whether the reading is logged.)
CheckMemoryThrows(heapUsedMB) == heapUsedMB > MEMORY_THRESHOLD_MB

\* checkConcurrency: throws when the counter is at or above the maximum.
CheckConcurrencyThrows == activeRequests >= MAX_CONCURRENT_REQUESTS

(* ------------------------- class CircuitBreaker ------------------------ *)

ExecuteRejects_ComparisonInverted == cbState = "OPEN" /\ now > nextAttempt

\* execute, lines 49-52: the call is refused before fn runs.
ExecuteRejects == cbState = "OPEN" /\ now < nextAttempt

\* execute, lines 49-54: the state with which fn is invoked.
StateOnEntry == IF cbState = "OPEN" THEN "HALF_OPEN" ELSE cbState

StateOnSuccess_AlwaysCloses == "CLOSED"

\* execute, lines 58-61: fn has resolved.
StateOnSuccess == IF cbState = "HALF_OPEN" THEN "CLOSED" ELSE cbState
FailuresOnSuccess == IF cbState = "HALF_OPEN" THEN 0 ELSE failures

\* execute, lines 64-69: fn has rejected.
FailuresOnFailure == failures + 1
OpensOnFailure == FailuresOnFailure >= CIRCUIT_BREAKER_THRESHOLD
StateOnFailure == IF OpensOnFailure THEN "OPEN" ELSE cbState
NextAttemptOnFailure ==
    IF OpensOnFailure THEN now + CIRCUIT_BREAKER_TIMEOUT_MS ELSE nextAttempt

(* ------------------------------ GET /sse ------------------------------- *)

\* The catch block of the handler, line 772, and the close listener,
\* line 756: the counter is decremented.
Release(n) == n - 1

\* new SSEServerTransport: the session id is fresh; the lowest unused
\* connection slot stands for it.
FreshId(c) == pc[c] = "idle" /\ \A d \in Conns : d < c => pc[d] # "idle"

\* checkMemory throws; the catch block runs with no transport and no timer.
SseRejectMemory(h) ==
    /\ CheckMemoryThrows(h)
    /\ activeRequests > -MaxUnderflow
    /\ activeRequests' = Release(activeRequests)
    /\ response' = "503 high load"
    /\ UNCHANGED <<breaker, now, activeSseTransports, pc, pingInterval,
                   clientGone, elapsed, probes>>

\* checkMemory passes, checkConcurrency throws; the catch block runs.
SseRejectCapacity(h) ==
    /\ ~CheckMemoryThrows(h)
    /\ CheckConcurrencyThrows
    /\ activeRequests > -MaxUnderflow
    /\ activeRequests' = Release(activeRequests)
    /\ response' = "503 capacity"
    /\ UNCHANGED <<breaker, now, activeSseTransports, pc, pingInterval,
                   clientGone, elapsed, probes>>

SseRejectCircuit_EntryStays(c, h) ==
    /\ ~CheckMemoryThrows(h)
    /\ ~CheckConcurrencyThrows
    /\ FreshId(c)
    /\ ExecuteRejects
    /\ activeRequests' = Release(activeRequests + 1)
    /\ activeSseTransports' = activeSseTransports \cup {c}
    /\ response' = "503 unavailable"
    /\ UNCHANGED <<breaker, now, pc, pingInterval, clientGone, elapsed,
                   probes>>

\* Both checks pass, the counter is incremented and the transport is
\* registered; execute throws before invoking fn, and the catch block
\* releases the counter and removes the transport in the same turn.
SseRejectCircuit(c, h) ==
    /\ ~CheckMemoryThrows(h)
    /\ ~CheckConcurrencyThrows
    /\ FreshId(c)
    /\ ExecuteRejects
    /\ activeRequests' = Release(activeRequests + 1)
    /\ activeSseTransports' = (activeSseTransports \cup {c}) \ {c}
    /\ response' = "503 unavailable"
    /\ UNCHANGED <<breaker, now, pc, pingInterval, clientGone, elapsed,
                   probes>>

\* Both checks pass and execute invokes fn = mcpServer.connect(transport);
\* the handler is suspended at the await of line 746.
SseAdmit(c, h) ==
    /\ ~CheckMemoryThrows(h)
    /\ ~CheckConcurrencyThrows
    /\ FreshId(c)
    /\ ~ExecuteRejects
    /\ activeRequests' = activeRequests + 1
    /\ activeSseTransports' = activeSseTransports \cup {c}
    /\ cbState' = StateOnEntry
    /\ pc' = [pc EXCEPT ![c] = "connecting"]
    /\ elapsed' = [elapsed EXCEPT ![c] = 0]
    /\ probes' = IF StateOnEntry = "HALF_OPEN" THEN probes \cup {c} ELSE probes
    /\ response' = "none"
    /\ UNCHANGED <<failures, nextAttempt, now, pingInterval, clientGone>>

\* connect resolves: execute returns, the heartbeat timer is started and
\* the close listener is registered (lines 58-62 and 749-768).
ConnectSuccess(c) ==
    /\ pc[c] = "connecting"
    /\ cbState' = StateOnSuccess
    /\ failures' = FailuresOnSuccess
    /\ pc' = [pc EXCEPT ![c] = "open"]
    /\ pingInterval' = pingInterval \cup {c}
    /\ elapsed' = [elapsed EXCEPT ![c] = 0]
    /\ probes' = probes \ {c}
    /\ response' = "sse established"
    /\ UNCHANGED <<activeRequests, nextAttempt, now, activeSseTransports,
                   clientGone>>

\* connect rejects: execute counts the failure and rethrows, the catch
\* block of the handler releases the counter and removes the transport
\* (lines 63-71 and 770-798).
ConnectFailure(c) ==
    /\ pc[c] = "connecting"
    /\ failures < MaxFailures
    /\ failures' = FailuresOnFailure
    /\ cbState' = StateOnFailure
    /\ nextAttempt' = NextAttemptOnFailure
    /\ activeRequests' = Release(activeRequests)
    /\ activeSseTransports' = activeSseTransports \ {c}
    /\ pc' = [pc EXCEPT ![c] = "idle"]
    /\ clientGone' = clientGone \ {c}
    /\ elapsed' = [elapsed EXCEPT ![c] = 0]
    /\ probes' = probes \ {c}
    /\ response' = "connect failed"
    /\ UNCHANGED <<now, pingInterval>>

\* The client closes an established connection: the close listener of
\* lines 755-768 runs.
ClientClose(c) ==
    /\ pc[c] = "open"
    /\ c \notin clientGone
    /\ activeRequests' = Release(activeRequests)
    /\ pingInterval' = pingInterval \ {c}
    /\ activeSseTransports' = activeSseTransports \ {c}
    /\ pc' = [pc EXCEPT ![c] = "idle"]
    /\ response' = "none"
    /\ UNCHANGED <<breaker, now, clientGone, elapsed, probes>>

\* The client closes while connect is pending: 'close' is emitted before
\* the listener of line 755 is registered, so no handler code runs.
ClientCloseEarly(c) ==
    /\ pc[c] = "connecting"
    /\ c \notin clientGone
    /\ clientGone' = clientGone \cup {c}
    /\ response' = "none"
    /\ UNCHANGED <<activeRequests, breaker, now, activeSseTransports, pc,
                   pingInterval, elapsed, probes>>

(* ----------------------------- POST /reset ----------------------------- *)

\* The handler calls circuitBreaker.reset() only when the state is OPEN.
ResetApplies == cbState = "OPEN"

PostReset ==
    /\ IF ResetApplies
       THEN /\ failures' = 0
            /\ cbState' = "CLOSED"
            /\ response' = "reset to CLOSED"
       ELSE /\ UNCHANGED <<failures, cbState>>
            /\ response' = "already CLOSED"
    /\ UNCHANGED <<activeRequests, nextAttempt, now, activeSseTransports, pc,
                   pingInterval, clientGone, elapsed, probes>>

(* ---------------------------- POST /message ---------------------------- *)

PostMessage_NoLookup(id) ==
    /\ response' = "message handled"
    /\ UNCHANGED <<activeRequests, breaker, now, activeSseTransports, pc,
                   pingInterval, clientGone, elapsed, probes>>

\* The transport is looked up by the session id of the request; a found
\* transport is handed the message (and answers it itself), anything else
\* is answered 404.  Neither check of the /sse handler is called here.
PostMessage(id) ==
    /\ response' = IF id \in activeSseTransports THEN "message handled"
                   ELSE "404 no session"
    /\ UNCHANGED <<activeRequests, breaker, now, activeSseTransports, pc,
                   pingInterval, clientGone, elapsed, probes>>

(* --------------------------------- time -------------------------------- *)

Min(a, b) == IF a < b THEN a ELSE b

\* Date.now() advances by TickMs; no timer of the gateway changes its state
\* (withTimeout is never called, the heartbeat only writes to the stream).
Tick ==
    /\ now + TickMs <= MaxTicks * TickMs
    /\ now' = now + TickMs
    /\ response' = "none"
    /\ UNCHANGED <<activeRequests, breaker, activeSseTransports, pc,
                   pingInterval, clientGone, elapsed, probes>>

\* The same step, with the age of every pending connect recorded.
TickTimed ==
    /\ now + TickMs <= MaxTimedTicks * TickMs
    /\ now' = now + TickMs
    /\ elapsed' = [c \in Conns |->
                      IF pc[c] = "connecting"
                      THEN Min(elapsed[c] + TickMs, REQUEST_TIMEOUT_MS + 1)
                      ELSE elapsed[c]]
    /\ response' = "none"
    /\ UNCHANGED <<activeRequests, breaker, activeSseTransports, pc,
                   pingInterval, clientGone, probes>>

\* A step of the gateway that records nothing of its turn, and one that
\* records t; neither touches the corpus.
Quiet == UNCHANGED <<turn, loader>>
Record(t) == turn' = t /\ UNCHANGED loader

\* The handler turns and events of the gateway; turn is recorded only under
\* SpecTurns and SpecSessions below.
Handlers ==
    \/ \E h \in HeapLevels : SseRejectMemory(h) /\ Quiet
    \/ \E h \in HeapLevels : SseRejectCapacity(h) /\ Quiet
    \/ \E c \in Conns, h \in HeapLevels :
          SseRejectCircuit(c, h) /\ Quiet
    \/ \E c \in Conns, h \in HeapLevels : SseAdmit(c, h) /\ Quiet
    \/ \E c \in Conns : ConnectSuccess(c) /\ Quiet
    \/ \E c \in Conns : ConnectFailure(c) /\ Quiet
    \/ \E c \in Conns : ClientClose(c) /\ Quiet
    \/ \E c \in Conns : ClientCloseEarly(c) /\ Quiet
    \/ PostReset /\ Quiet

\* Push-connections and the breaker: GET /sse, its continuations, the close
\* event, POST /reset and the clock.
Next ==
    \/ Handlers
    \/ Tick /\ Quiet

Spec == Init /\ [][Next]_vars

\* The same with the age of the pending connects recorded.
NextTimed ==
    \/ Handlers
    \/ TickTimed /\ Quiet

SpecTimed == Init /\ [][NextTimed]_vars

\* The same with the inbound messages of POST /message.
NextMessages ==
    \/ Handlers
    \/ \E id \in Conns \cup {UnknownId} : PostMessage(id) /\ Quiet
    \/ Tick /\ Quiet

SpecMessages == Init /\ [][NextMessages]_vars

\* A request turn of GET /sse: heap reading h, statements path.
SseTurn(h, path) == [heapUsedMB |-> h, connectionId |-> 0, executed |-> path]

\* A request turn of POST /message with session id id.
MessageTurn(id) == [heapUsedMB |-> 0, connectionId |-> id, executed |-> <<>>]

\* Push-connections and the breaker as in Spec, with the heap reading and
\* the path through the handler of each GET /sse recorded in turn.
NextTurns ==
    \/ \E h \in HeapLevels :
          SseRejectMemory(h) /\ Record(SseTurn(h, PathMemory))
    \/ \E h \in HeapLevels :
          SseRejectCapacity(h) /\ Record(SseTurn(h, PathCapacity))
    \/ \E c \in Conns, h \in HeapLevels :
          SseRejectCircuit(c, h) /\ Record(SseTurn(h, PathCircuit))
    \/ \E c \in Conns, h \in HeapLevels :
          SseAdmit(c, h) /\ Record(SseTurn(h, PathAdmit))
    \/ \E c \in Conns : ConnectSuccess(c) /\ Record(NoTurn)
    \/ \E c \in Conns : ConnectFailure(c) /\ Record(NoTurn)
    \/ \E c \in Conns : ClientClose(c) /\ Record(NoTurn)
    \/ \E c \in Conns : ClientCloseEarly(c) /\ Record(NoTurn)
    \/ PostReset /\ Record(NoTurn)
    \/ Tick /\ Record(NoTurn)

SpecTurns == Init /\ [][NextTurns]_vars

\* Push-connections and inbound messages, with the session id of each
\* POST /message recorded in turn.  The /message handler reads the registry
\* and nothing of the clock, so the clock stands still here.
NextSessions ==
    \/ \E h \in HeapLevels : SseRejectMemory(h) /\ Record(NoTurn)
    \/ \E h \in HeapLevels : SseRejectCapacity(h) /\ Record(NoTurn)
    \/ \E c \in Conns, h \in HeapLevels :
          SseRejectCircuit(c, h) /\ Record(NoTurn)
    \/ \E c \in Conns, h \in HeapLevels : SseAdmit(c, h) /\ Record(NoTurn)
    \/ \E c \in Conns : ConnectSuccess(c) /\ Record(NoTurn)
    \/ \E c \in Conns : ConnectFailure(c) /\ Record(NoTurn)
    \/ \E c \in Conns : ClientClose(c) /\ Record(NoTurn)
    \/ \E c \in Conns : ClientCloseEarly(c) /\ Record(NoTurn)
    \/ PostReset /\ Record(NoTurn)
    \/ \E id \in Conns \cup {UnknownId} :
          PostMessage(id) /\ Record(MessageTurn(id))

SpecSessions == Init /\ [][NextSessions]_vars

(* ------------------------- strings of the loader ----------------------- *)

\* The elements of a sequence.
Range(seq) == {seq[i] : i \in DOMAIN seq}

\* A string is a sequence of one-character strings.
UpperChars == <<"A", "B", "C", "D", "E", "F", "G", "H", "I", "J", "K", "L", "M",
                "N", "O", "P", "Q", "R", "S", "T", "U", "V", "W", "X", "Y", "Z">>
LowerChars == <<"a", "b", "c", "d", "e", "f", "g", "h", "i", "j", "k", "l", "m",
                "n", "o", "p", "q", "r", "s", "t", "u", "v", "w", "x", "y", "z">>

\* String.prototype.toLowerCase.
toLowerCaseChar(c) ==
    IF \E i \in DOMAIN UpperChars : UpperChars[i] = c
    THEN LowerChars[CHOOSE i \in DOMAIN UpperChars : UpperChars[i] = c]
    ELSE c
toLowerCase(str) == [i \in 1..Len(str) |-> toLowerCaseChar(str[i])]

\* String.prototype.includes.
includes(str, search) ==
    \E i \in 1..(Len(str) - Len(search) + 1) :
        SubSeq(str, i, i + Len(search) - 1) = search

\* Math.min of three.
Min3(a, b, c) == Min(Min(a, b), c)

\* levenshteinDistance, lines 18-49: row i of the matrix as the sequence of
\* its cells j = 0..a.length, filled from left to right from the row above.
RECURSIVE FillRow(_, _, _, _, _)
FillRow(a, b, i, above, row) ==
    IF Len(row) = Len(a) + 1 THEN row
    ELSE LET j == Len(row)
             cell == IF b[i] = a[j]
                     THEN above[j]
                     ELSE Min3(above[j] + 1, row[j] + 1, above[j + 1] + 1)
         IN  FillRow(a, b, i, above, Append(row, cell))

RECURSIVE MatrixRow(_, _, _)
MatrixRow(a, b, i) ==
    IF i = 0 THEN [j \in 1..(Len(a) + 1) |-> j - 1]
    ELSE FillRow(a, b, i, MatrixRow(a, b, i - 1), <<i>>)

levenshteinDistance_EmptyIsNear(a, b) ==
    IF Len(a) = 0 THEN Len(a)
    ELSE IF Len(b) = 0 THEN Len(a)
    ELSE MatrixRow(a, b, Len(b))[Len(a) + 1]

levenshteinDistance(a, b) ==
    IF Len(a) = 0 THEN Len(b)
    ELSE IF Len(b) = 0 THEN Len(a)
    ELSE MatrixRow(a, b, Len(b))[Len(a) + 1]

(* ------------------------------ searchHosts ---------------------------- *)

\* An option that the caller leaves out is <<>>, one that is given is <<v>>.
Given(option) == option # <<>>

\* The default of the option maxDistance of searchHosts.
searchHosts_maxDistance == 2

\* Array.prototype.sort with (a, b) => a.distance - b.distance: the sort is
\* stable, so an element goes behind every element that is not farther.
RECURSIVE InsertByDistance(_, _)
InsertByDistance(sorted, x) ==
    IF sorted = <<>> THEN <<x>>
    ELSE IF Head(sorted).distance - x.distance <= 0
    THEN <<Head(sorted)>> \o InsertByDistance(Tail(sorted), x)
    ELSE <<x>> \o sorted

RECURSIVE SortByDistance(_)
SortByDistance(seq) ==
    IF seq = <<>> THEN <<>>
    ELSE InsertByDistance(SortByDistance(SubSeq(seq, 1, Len(seq) - 1)),
                          seq[Len(seq)])

searchHosts_MixesFuzzy(query, options) ==
    LET queryLower == toLowerCase(query)
        IsExact(host) == \/ includes(toLowerCase(host.host), queryLower)
                         \/ includes(toLowerCase(host.email), queryLower)
        exactMatches == [i \in 1..Len(SelectSeq(hosts, IsExact)) |->
                            [host |-> SelectSeq(hosts, IsExact)[i],
                             matchType |-> "exact"]]
        fuzzyMatches == [i \in 1..Len(hosts) |->
                            [host |-> hosts[i], matchType |-> "fuzzy",
                             matchDistance |->
                                 levenshteinDistance(queryLower,
                                     toLowerCase(hosts[i].host))]]
    IN  exactMatches \o fuzzyMatches

\* searchHosts, lines 416-456.
searchHosts(query, options) ==
    LET maxDistance == IF Given(options.maxDistance)
                       THEN options.maxDistance[1]
                       ELSE searchHosts_maxDistance
        queryLower == toLowerCase(query)
        IsExact(host) == \/ includes(toLowerCase(host.host), queryLower)
                         \/ includes(toLowerCase(host.email), queryLower)
        exact == SelectSeq(hosts, IsExact)
        exactMatches == [i \in 1..Len(exact) |->
                            [host |-> exact[i], matchType |-> "exact"]]
        measured == [i \in 1..Len(hosts) |->
                        [host |-> hosts[i],
                         distance |->
                             Min(levenshteinDistance(queryLower,
                                     toLowerCase(hosts[i].host)),
                                 levenshteinDistance(queryLower,
                                     toLowerCase(hosts[i].email)))]]
        IsNear(result) == result.distance <= maxDistance
        sorted == SortByDistance(SelectSeq(measured, IsNear))
        fuzzyMatches == [i \in 1..Len(sorted) |->
                            [host |-> sorted[i].host, matchType |-> "fuzzy",
                             matchDistance |-> sorted[i].distance]]
    IN  IF Len(exactMatches) > 0 THEN exactMatches ELSE fuzzyMatches

\* The sequences without repetition, of at most n elements, over a set.
RECURSIVE Lists(_, _)
Lists(set, n) ==
    IF n = 0 THEN {<<>>}
    ELSE LET shorter == Lists(set, n - 1)
         IN  shorter \cup
             UNION {{Append(l, x) : x \in set \ Range(l)} : l \in shorter}

\* All strings of at most n characters over an alphabet.
RECURSIVE StringsUpTo(_, _)
StringsUpTo(alphabet, n) ==
    IF n = 0 THEN {<<>>}
    ELSE LET shorter == StringsUpTo(alphabet, n - 1)
         IN  shorter \cup {Append(str, c) : str \in shorter, c \in alphabet}

\* The hosts that hosts.json may hold, at most MaxHosts of them at a time.
MaxHosts == 2
HostPool ==
    { [hostid |-> 1, host |-> <<"k", "l", "a", "a", "t", "u">>,
       email |-> <<"k", "l", "@", "x">>],
      [hostid |-> 2, host |-> <<"K", "e", "n">>,
       email |-> <<"k", "f", "@", "x">>],
      [hostid |-> 3, host |-> <<"d", "a", "v", "e">>, email |-> <<>>],
      [hostid |-> 4, host |-> <<"k", "l", "a", "a", "t", "o", "o">>,
       email |-> <<"K", "E", "N", "@", "x">>] }

\* The queries: the empty one, names with and without typing errors, parts
\* of names and addresses, and every short string over two letters.
MaxQueryLen == 2
HostQueries ==
    { <<"k", "l", "a", "t", "t", "u">>, <<"K", "E", "N">>, <<"d", "a", "v">>,
      <<"x", "y", "z", "a", "b", "c">>, <<"k", "l", "@", "y">>,
      <<"k", "a", "n">>, <<"@", "X">> }
        \cup StringsUpTo({"k", "N"}, MaxQueryLen)
HostOptions == [maxDistance : {<<>>, <<1>>, <<3>>}]

InitHosts ==
    /\ hosts \in Lists(HostPool, MaxHosts)
    /\ episodes = <<>>
    /\ transcripts = <<>>
    /\ call = NoCall
    /\ results = <<>>
    /\ GatewayInit

\* The corpus is read-only once loaded, so a second call would see what the
\* first saw: one call is made.
SearchHosts(query, options) ==
    /\ call = NoCall
    /\ call' = [fn |-> "searchHosts", query |-> query, options |-> options]
    /\ results' = searchHosts(query, options)
    /\ UNCHANGED <<gateway, hosts, episodes, transcripts>>

NextHosts == \E query \in HostQueries, options \in HostOptions :
                 SearchHosts(query, options)

SpecHosts == InitHosts /\ [][NextHosts]_vars

(* ----------------------------- searchEpisodes -------------------------- *)

\* The defaults of the options limit and maxDistance of searchEpisodes.
searchEpisodes_limit == 20
searchEpisodes_maxDistance == 3

\* The code units of the characters that occur in dates.
Digits == <<"0", "1", "2", "3", "4", "5", "6", "7", "8", "9">>
charCode(c) == CHOOSE i \in DOMAIN Digits : Digits[i] = c

\* The comparison of two strings by code units, as <=, >= and localeCompare
\* take it for strings of digits: negative, zero or positive.
RECURSIVE compareStrings(_, _)
compareStrings(a, b) ==
    IF a = <<>> /\ b = <<>> THEN 0
    ELSE IF a = <<>> THEN -1
    ELSE IF b = <<>> THEN 1
    ELSE IF Head(a) # Head(b) THEN charCode(Head(a)) - charCode(Head(b))
    ELSE compareStrings(Tail(a), Tail(b))

\* The characters that \s matches.
IsWhitespace(c) == c \in {" ", "\t", "\n", "\r"}

\* String.prototype.trim.
RECURSIVE trimStart(_)
trimStart(str) ==
    IF str # <<>> /\ IsWhitespace(Head(str)) THEN trimStart(Tail(str)) ELSE str

RECURSIVE trimEnd(_)
trimEnd(str) ==
    IF str # <<>> /\ IsWhitespace(str[Len(str)])
    THEN trimEnd(SubSeq(str, 1, Len(str) - 1))
    ELSE str

trim(str) == trimEnd(trimStart(str))

\* String.prototype.split(/\s+/): the pieces between the runs of whitespace;
\* a run at the start or at the end leaves an empty piece there, and the
\* empty string is one empty piece.
RECURSIVE splitFrom(_, _, _, _)
splitFrom(str, pieces, piece, inRun) ==
    IF str = <<>> THEN Append(pieces, piece)
    ELSE IF IsWhitespace(Head(str))
    THEN IF inRun THEN splitFrom(Tail(str), pieces, piece, TRUE)
         ELSE splitFrom(Tail(str), Append(pieces, piece), <<>>, TRUE)
    ELSE splitFrom(Tail(str), pieces, Append(piece, Head(str)), FALSE)

splitWhitespace(str) == splitFrom(str, <<>>, <<>>, FALSE)

matchesFilters_NoToDate(ep, options) ==
    LET hostId == options.hostId
        seriesId == options.seriesId
        tag == options.tag
        fromDate == options.fromDate
        matchesHost == (~Given(hostId) \/ hostId[1] = 0) \/ ep.hostid = hostId[1]
        matchesSeries == ~Given(seriesId) \/ ep.series = seriesId[1]
        matchesTag == (~Given(tag) \/ tag[1] = <<>>)
                         \/ includes(toLowerCase(ep.tags), toLowerCase(tag[1]))
        matchesDateRange ==
            (~Given(fromDate) \/ fromDate[1] = <<>>)
               \/ compareStrings(ep.date, fromDate[1]) >= 0
    IN  matchesHost /\ matchesSeries /\ matchesTag /\ matchesDateRange

\* matchesFilters, lines 194-201.
matchesFilters(ep, options) ==
    LET hostId == options.hostId
        seriesId == options.seriesId
        tag == options.tag
        fromDate == options.fromDate
        toDate == options.toDate
        matchesHost == (~Given(hostId) \/ hostId[1] = 0) \/ ep.hostid = hostId[1]
        matchesSeries == ~Given(seriesId) \/ ep.series = seriesId[1]
        matchesTag == (~Given(tag) \/ tag[1] = <<>>)
                         \/ includes(toLowerCase(ep.tags), toLowerCase(tag[1]))
        matchesDateRange ==
            /\ (~Given(fromDate) \/ fromDate[1] = <<>>)
                  \/ compareStrings(ep.date, fromDate[1]) >= 0
            /\ (~Given(toDate) \/ toDate[1] = <<>>)
                  \/ compareStrings(ep.date, toDate[1]) <= 0
    IN  matchesHost /\ matchesSeries /\ matchesTag /\ matchesDateRange

matchesQuery_TitleOnly(ep, query) ==
    \/ query = <<>>
    \/ includes(toLowerCase(ep.title), toLowerCase(query))

\* matchesQuery, lines 205-209.
matchesQuery(ep, query) ==
    \/ query = <<>>
    \/ includes(toLowerCase(ep.title), toLowerCase(query))
    \/ includes(toLowerCase(ep.summary), toLowerCase(query))
    \/ includes(toLowerCase(ep.tags), toLowerCase(query))
    \/ includes(toLowerCase(ep.notes), toLowerCase(query))

\* The exact path, lines 204-215.
exactEpisodes(query, options) ==
    LET Matches(ep) == matchesQuery(ep, query) /\ matchesFilters(ep, options)
        matching == SelectSeq(episodes, Matches)
    IN  [i \in 1..Len(matching) |->
            [episode |-> matching[i], matchType |-> "exact"]]

\* The smallest of the distances from queryLower to the pieces of the
\* title, lines 223-231; there is always at least one piece.
RECURSIVE minDistance(_, _, _)
minDistance(queryLower, titleWords, soFar) ==
    IF titleWords = <<>> THEN soFar
    ELSE LET distance == levenshteinDistance(queryLower, Head(titleWords))
         IN  minDistance(queryLower, Tail(titleWords),
                         IF soFar = -1 \/ distance < soFar
                         THEN distance ELSE soFar)

\* The fuzzy fallback, lines 219-243; -1 stands for Infinity.
fuzzyEpisodes(query, options) ==
    LET maxDistance == IF Given(options.maxDistance)
                       THEN options.maxDistance[1]
                       ELSE searchEpisodes_maxDistance
        Passes(ep) == matchesFilters(ep, options)
        filtered == SelectSeq(episodes, Passes)
        measured == [i \in 1..Len(filtered) |->
                        [episode |-> filtered[i],
                         distance |->
                             minDistance(toLowerCase(query),
                                 splitWhitespace(toLowerCase(filtered[i].title)),
                                 -1)]]
        IsNear(result) == result.distance <= maxDistance
        sorted == SortByDistance(SelectSeq(measured, IsNear))
    IN  [i \in 1..Len(sorted) |->
            [episode |-> sorted[i].episode, matchType |-> "fuzzy",
             matchDistance |-> sorted[i].distance]]

\* The matches before the last sort, lines 204-247.
episodeMatches(query, options) ==
    LET exact == exactEpisodes(query, options)
    IN  IF Len(exact) = 0 /\ query # <<>> /\ Len(trim(query)) > 0
        THEN fuzzyEpisodes(query, options)
        ELSE exact

compareResults_DateOnly(a, b) == compareStrings(b.episode.date, a.episode.date)

\* The comparator of the last sort, lines 250-257.
compareResults(a, b) ==
    IF /\ a.matchType = "fuzzy" /\ b.matchType = "fuzzy"
       /\ a.matchDistance - b.matchDistance # 0
    THEN a.matchDistance - b.matchDistance
    ELSE compareStrings(b.episode.date, a.episode.date)

\* Array.prototype.sort with compareResults; the sort is stable.
RECURSIVE InsertResult(_, _)
InsertResult(sorted, x) ==
    IF sorted = <<>> THEN <<x>>
    ELSE IF compareResults(Head(sorted), x) <= 0
    THEN <<Head(sorted)>> \o InsertResult(Tail(sorted), x)
    ELSE <<x>> \o sorted

RECURSIVE SortResults(_)
SortResults(seq) ==
    IF seq = <<>> THEN <<>>
    ELSE InsertResult(SortResults(SubSeq(seq, 1, Len(seq) - 1)), seq[Len(seq)])

\* Array.prototype.slice(0, end).
slice(seq, end) ==
    LET last == IF end < 0 THEN Len(seq) + end ELSE Min(end, Len(seq))
    IN  SubSeq(seq, 1, last)

\* searchEpisodes, lines 180-260.
searchEpisodes(query, options) ==
    LET limit == IF Given(options.limit) THEN options.limit[1]
                 ELSE searchEpisodes_limit
    IN  slice(SortResults(episodeMatches(query, options)), limit)

\* The episodes that episodes.json may hold, at most MaxEpisodes of them at a
\* time: titles with other case, with several words and with whitespace in
\* front; the query's word in title, summary, tags or notes; two hosts, two
\* series and dates that repeat.
MaxEpisodes == 3
EpisodePool ==
    { [id |-> 1, title |-> <<"L", "i", "n", "u", "x", " ", "t", "i", "p", "s">>,
       summary |-> <<>>, tags |-> <<"k", "e", "r", "n", "e", "l">>,
       notes |-> <<>>, hostid |-> 1, series |-> 0, date |-> <<"2", "0">>],
      [id |-> 2, title |-> <<"L", "y", "n", "x">>,
       summary |-> <<>>, tags |-> <<>>, notes |-> <<>>,
       hostid |-> 2, series |-> 1, date |-> <<"2", "1">>],
      [id |-> 3, title |-> <<" ", "p", "y", "t", "h", "o", "n">>,
       summary |-> <<>>, tags |-> <<>>,
       notes |-> <<"o", "n", " ", "L", "I", "N", "U", "X">>,
       hostid |-> 1, series |-> 0, date |-> <<"1", "9">>],
      [id |-> 4, title |-> <<"V", "i", "m">>,
       summary |-> <<"l", "i", "n", "u", "x">>,
       tags |-> <<"e", "d", "i", "t", "o", "r">>, notes |-> <<>>,
       hostid |-> 1, series |-> 0, date |-> <<"2", "1">>],
      [id |-> 5, title |-> <<"p", "a", "n", "i", "c">>,
       summary |-> <<>>, tags |-> <<"l", "i", "n", "x">>, notes |-> <<>>,
       hostid |-> 2, series |-> 0, date |-> <<"2", "0">>] }

EpisodeQueries ==
    { <<>>, <<" ">>, <<"l", "i", "n", "x">>, <<"L", "I", "N", "U", "X">>,
      <<"x", "y", "z">>, <<"q", "q", "q", "q", "q", "q", "q">> }

\* The options: each of limit, hostId and maxDistance left out or given,
\* and at most one of the other filters, or both ends of the date range.
NoFilter == [seriesId |-> <<>>, tag |-> <<>>, fromDate |-> <<>>,
             toDate |-> <<>>]
OtherFilters ==
    { NoFilter,
      [NoFilter EXCEPT !.seriesId = <<1>>],
      [NoFilter EXCEPT !.tag = << <<"E", "d", "i", "t">> >>],
      [NoFilter EXCEPT !.fromDate = << <<"2", "0">> >>],
      [NoFilter EXCEPT !.toDate = << <<"2", "0">> >>],
      [NoFilter EXCEPT !.fromDate = << <<"2", "0">> >>,
                       !.toDate = << <<"2", "0">> >>] }
EpisodeOptions ==
    { [limit |-> limit, hostId |-> hostId, maxDistance |-> maxDistance,
       seriesId |-> other.seriesId, tag |-> other.tag,
       fromDate |-> other.fromDate, toDate |-> other.toDate] :
         limit \in {<<>>, <<1>>, <<2>>}, hostId \in {<<>>, <<1>>},
         maxDistance \in {<<>>, <<1>>}, other \in OtherFilters }

InitEpisodes ==
    /\ hosts = <<>>
    /\ episodes \in Lists(EpisodePool, MaxEpisodes)
    /\ transcripts = <<>>
    /\ call = NoCall
    /\ results = <<>>
    /\ GatewayInit

SearchEpisodes(query, options) ==
    /\ call = NoCall
    /\ call' = [fn |-> "searchEpisodes", query |-> query, options |-> options]
    /\ results' = searchEpisodes(query, options)
    /\ UNCHANGED <<gateway, hosts, episodes, transcripts>>

NextEpisodes == \E query \in EpisodeQueries, options \in EpisodeOptions :
                    SearchEpisodes(query, options)

SpecEpisodes == InitEpisodes /\ [][NextEpisodes]_vars

(* ---------------------------- searchTranscripts ------------------------ *)

\* The defaults of the options limit, contextLines and maxMatchesPerEpisode
\* of searchTranscripts.
searchTranscripts_limit == 20
searchTranscripts_contextLines == 3
searchTranscripts_maxMatchesPerEpisode == 5

\* String.prototype.split on a class of single characters: every such
\* character ends a piece.
RECURSIVE splitChars(_, _, _, _)
splitChars(str, separators, pieces, piece) ==
    IF str = <<>> THEN Append(pieces, piece)
    ELSE IF Head(str) \in separators
    THEN splitChars(Tail(str), separators, Append(pieces, piece), <<>>)
    ELSE splitChars(Tail(str), separators, pieces, Append(piece, Head(str)))

\* String.prototype.split(/\r?\n/): a line feed ends a line, and a carriage
\* return right before it belongs to the separator.
RECURSIVE splitLines(_, _, _)
splitLines(str, lines, line) ==
    IF str = <<>> THEN Append(lines, line)
    ELSE IF Head(str) = "\n"
    THEN splitLines(Tail(str),
                    Append(lines,
                           IF line # <<>> /\ line[Len(line)] = "\r"
                           THEN SubSeq(line, 1, Len(line) - 1) ELSE line),
                    <<>>)
    ELSE splitLines(Tail(str), lines, Append(line, Head(str)))

\* Array.prototype.join('\n').
RECURSIVE join(_)
join(lines) ==
    IF lines = <<>> THEN <<>>
    ELSE IF Len(lines) = 1 THEN lines[1]
    ELSE lines[1] \o <<"\n">> \o join(Tail(lines))

\* [...new Set(seq)]: the first occurrence of every element, in order.
RECURSIVE distinct(_)
distinct(seq) ==
    IF seq = <<>> THEN <<>>
    ELSE LET front == distinct(SubSeq(seq, 1, Len(seq) - 1))
             last == seq[Len(seq)]
         IN  IF last \in Range(front) THEN front ELSE Append(front, last)

\* map(part => part.trim()).filter(Boolean).
trimmedNonEmpty(parts) ==
    LET trimmed == [i \in 1..Len(parts) |-> trim(parts[i])]
        NonEmpty(part) == part # <<>>
    IN  SelectSeq(trimmed, NonEmpty)

\* resolvedHostIds, lines 278-285.
resolvedHostIds(options) ==
    (IF Given(options.hostId) /\ options.hostId[1] # 0
     THEN {options.hostId[1]} ELSE {})
    \cup
    (IF Given(options.hostName) /\ options.hostName[1] # <<>>
     THEN LET hostMatches == searchHosts(options.hostName[1],
                                         [maxDistance |-> <<>>])
          IN  {hostMatches[i].host.hostid : i \in DOMAIN hostMatches}
     ELSE {})

matchModeOf(options) ==
    IF Given(options.matchMode) THEN options.matchMode[1] ELSE "auto"

searchTerms_QueryFirst(query, options) ==
    LET terms == IF Given(options.terms) THEN options.terms[1] ELSE <<>>
        matchMode == matchModeOf(options)
        explicitTerms == trimmedNonEmpty(terms)
        splitQueryTerms ==
            IF matchMode = "any" \/ matchMode = "all"
            THEN trimmedNonEmpty(splitChars(query, {"|", ",", ";", "\n"},
                                            <<>>, <<>>))
            ELSE <<>>
        hasQuery == Len(trim(query)) > 0
        chosen == IF Len(splitQueryTerms) > 0 THEN splitQueryTerms
                  ELSE explicitTerms
    IN  IF Len(chosen) = 0 /\ hasQuery THEN <<trim(query)>> ELSE chosen

\* searchTerms, lines 288-304.
searchTerms(query, options) ==
    LET terms == IF Given(options.terms) THEN options.terms[1] ELSE <<>>
        matchMode == matchModeOf(options)
        explicitTerms == trimmedNonEmpty(terms)
        splitQueryTerms ==
            IF matchMode = "any" \/ matchMode = "all"
            THEN trimmedNonEmpty(splitChars(query, {"|", ",", ";", "\n"},
                                            <<>>, <<>>))
            ELSE <<>>
        hasQuery == Len(trim(query)) > 0
        chosen == IF Len(explicitTerms) > 0 THEN explicitTerms
                  ELSE splitQueryTerms
    IN  IF Len(chosen) = 0 /\ hasQuery THEN <<trim(query)>> ELSE chosen

\* resolvedMatchMode, lines 306-309.
resolvedMatchMode(query, options) ==
    IF matchModeOf(options) \in {"any", "all", "phrase"}
    THEN matchModeOf(options)
    ELSE IF Len(searchTerms(query, options)) > 1 THEN "any" ELSE "phrase"

\* effectiveTerms, lines 311-313.
effectiveTerms(query, options) ==
    LET terms == searchTerms(query, options)
        hasQuery == Len(trim(query)) > 0
        NonEmpty(term) == term # <<>>
    IN  IF resolvedMatchMode(query, options) = "phrase"
        THEN SelectSeq(<< IF hasQuery THEN trim(query)
                          ELSE IF Len(terms) > 0 THEN terms[1] ELSE <<>> >>,
                       NonEmpty)
        ELSE terms

\* matchers, lines 319-333: a term as literal text, between word boundaries
\* when wholeWord is set, with flag i unless caseSensitive is set.
matchers(query, options) ==
    LET terms == effectiveTerms(query, options)
    IN  [i \in 1..Len(terms) |->
            [term |-> terms[i],
             wholeWord |-> Given(options.wholeWord) /\ options.wholeWord[1],
             ignoreCase |-> ~(/\ Given(options.caseSensitive)
                              /\ options.caseSensitive[1])]]

\* The characters that \w matches.
WordChars == Range(UpperChars) \cup Range(LowerChars) \cup Range(Digits) \cup {"_"}

\* \b holds in front of position p of line.
wordBoundary(line, p) ==
    LET IsWord(i) == i \in 1..Len(line) /\ line[i] \in WordChars
    IN  IsWord(p - 1) # IsWord(p)

test_IgnoresCaseSensitive(matcher, line) ==
    LET term == matcher.term
    IN  \E from \in 1..(Len(line) - Len(term) + 1) :
            /\ \A k \in 1..Len(term) :
                   toLowerCaseChar(line[from + k - 1]) = toLowerCaseChar(term[k])
            /\ matcher.wholeWord =>
                  /\ wordBoundary(line, from)
                  /\ wordBoundary(line, from + Len(term))

\* matcher.regex.test(line) with lastIndex 0, line 363.
test(matcher, line) ==
    LET term == matcher.term
        Same(c, d) == IF matcher.ignoreCase
                      THEN toLowerCaseChar(c) = toLowerCaseChar(d)
                      ELSE c = d
    IN  \E from \in 1..(Len(line) - Len(term) + 1) :
            /\ \A k \in 1..Len(term) : Same(line[from + k - 1], term[k])
            /\ matcher.wholeWord =>
                  /\ wordBoundary(line, from)
                  /\ wordBoundary(line, from + Len(term))

\* The loop over the matchers for one line, lines 361-368.
RECURSIVE testMatchers(_, _, _)
testMatchers(ms, line, found) ==
    IF ms = <<>> THEN found
    ELSE LET matcher == Head(ms)
             term == matcher.term
             counts == found.termHitCounts
         IN  IF test(matcher, line)
             THEN testMatchers(Tail(ms), line,
                    [matchedOnLine |-> Append(found.matchedOnLine, term),
                     matchedTerms |->
                         IF term \in Range(found.matchedTerms)
                         THEN found.matchedTerms
                         ELSE Append(found.matchedTerms, term),
                     termHitCounts |->
                         IF term \in DOMAIN counts
                         THEN [counts EXCEPT ![term] = @ + 1]
                         ELSE [t \in DOMAIN counts \cup {term} |->
                                  IF t = term THEN 1 ELSE counts[t]]])
             ELSE testMatchers(Tail(ms), line, found)

Max(a, b) == IF a > b THEN a ELSE b

capReached_Exceeded(matches, maxMatchesPerEpisode) ==
    Len(matches) > maxMatchesPerEpisode

\* The test that ends the loop over the lines, line 382.
capReached(matches, maxMatchesPerEpisode) ==
    Len(matches) >= maxMatchesPerEpisode

\* The loop over the lines of one transcript, lines 357-386; index counts
\* from 1 here.
RECURSIVE scanLines(_, _, _, _, _)
scanLines(lines, index, ms, options, scan) ==
    IF index > Len(lines) THEN scan
    ELSE LET contextLines == IF Given(options.contextLines)
                             THEN options.contextLines[1]
                             ELSE searchTranscripts_contextLines
             maxMatchesPerEpisode ==
                 IF Given(options.maxMatchesPerEpisode)
                 THEN options.maxMatchesPerEpisode[1]
                 ELSE searchTranscripts_maxMatchesPerEpisode
             found == testMatchers(ms, lines[index],
                         [matchedOnLine |-> <<>>,
                          matchedTerms |-> scan.matchedTerms,
                          termHitCounts |-> scan.termHitCounts])
             start == Max(0, (index - 1) - contextLines)
             end == Min(Len(lines), (index - 1) + contextLines + 1)
             matches ==
                 IF Len(found.matchedOnLine) > 0
                 THEN Append(scan.matches,
                             [lineNumber |-> index,
                              terms |-> distinct(found.matchedOnLine),
                              context |-> join(SubSeq(lines, start + 1, end))])
                 ELSE scan.matches
             next == [matches |-> matches,
                      matchedTerms |-> found.matchedTerms,
                      termHitCounts |-> found.termHitCounts,
                      truncated |-> scan.truncated]
         IN  IF capReached(matches, maxMatchesPerEpisode)
             THEN [next EXCEPT !.truncated = TRUE]
             ELSE scanLines(lines, index + 1, ms, options, next)

\* getEpisode, lines 130-132: the first episode with the id, if any.
HasEpisode(id) == \E i \in DOMAIN episodes : episodes[i].id = id
getEpisode(id) ==
    episodes[CHOOSE i \in DOMAIN episodes :
                 /\ episodes[i].id = id
                 /\ \A j \in 1..(i - 1) : episodes[j].id # id]

limitReached_Exceeded(found, limit) == Len(found) > limit

\* The test that ends the loop over the transcripts, line 342.
limitReached(found, limit) == Len(found) >= limit

\* The loop over the transcripts, lines 341-407.
RECURSIVE scanTranscripts(_, _, _, _)
scanTranscripts(remaining, query, options, found) ==
    LET limit == IF Given(options.limit) THEN options.limit[1]
                 ELSE searchTranscripts_limit
        hostIds == resolvedHostIds(options)
        filterByHost == Cardinality(hostIds) > 0
        ms == matchers(query, options)
        mode == resolvedMatchMode(query, options)
    IN  IF remaining = <<>> \/ limitReached(found, limit) THEN found
        ELSE LET episodeId == Head(remaining).episodeId
                 transcript == Head(remaining).content
                 rest == Tail(remaining)
             IN  IF ~HasEpisode(episodeId)
                 THEN scanTranscripts(rest, query, options, found)
                 ELSE IF filterByHost /\ getEpisode(episodeId).hostid \notin hostIds
                 THEN scanTranscripts(rest, query, options, found)
                 ELSE LET scan == scanLines(splitLines(transcript, <<>>, <<>>),
                                      1, ms, options,
                                      [matches |-> <<>>,
                                       matchedTerms |-> <<>>,
                                       termHitCounts |-> <<>>,
                                       truncated |-> FALSE])
                      IN  IF Len(scan.matches) = 0
                          THEN scanTranscripts(rest, query, options, found)
                          ELSE IF mode = "all"
                                  /\ Len(scan.matchedTerms) < Len(ms)
                          THEN scanTranscripts(rest, query, options, found)
                          ELSE scanTranscripts(rest, query, options,
                                 Append(found,
                                   [episode |-> getEpisode(episodeId),
                                    matches |-> scan.matches,
                                    matchSummary |->
                                      [matchMode |-> mode,
                                       matchedTerms |-> scan.matchedTerms,
                                       totalMatches |-> Len(scan.matches),
                                       termHitCounts |-> scan.termHitCounts,
                                       truncated |-> scan.truncated]]))

\* searchTranscripts, lines 265-410.
searchTranscripts(query, options) ==
    IF Len(effectiveTerms(query, options)) = 0 THEN <<>>
    ELSE IF Len(matchers(query, options)) = 0 THEN <<>>
    ELSE scanTranscripts(transcripts, query, options, <<>>)

\* The corpus of the transcript search: three hosts, five episodes of the
\* first two hosts, and at most MaxTranscripts of the transcripts below, in
\* any order; one transcript belongs to no episode.
TranscriptHosts ==
    << [hostid |-> 1, host |-> <<"k", "l", "a", "a", "t", "u">>, email |-> <<"k", "l", "@", "x">>],
       [hostid |-> 2, host |-> <<"K", "e", "n">>, email |-> <<"k", "f", "@", "x">>],
       [hostid |-> 3, host |-> <<"d", "a", "v", "e">>, email |-> <<>>] >>

TranscriptEpisodes ==
    LET Episode(id) == CHOOSE ep \in EpisodePool : ep.id = id
    IN  <<Episode(1), Episode(2), Episode(3), Episode(4), Episode(5)>>

MaxTranscripts == 2
TranscriptPool ==
    { [episodeId |-> 1, content |-> <<"c", "a", "t", "\n", "d", "o", "g">>],
      [episodeId |-> 2, content |-> <<"c", "a", "t", "\n", "c", "a", "t", "\n", "d", "o", "g">>],
      [episodeId |-> 3, content |->
          <<"d", "o", "g", " ", "c", "a", "t", "\n", "c", "a", "t", " ", "d", "o", "g", "\n", "c", "a", "t", "\n", "c", "a", "t", "\n", "c", "a", "t">>],
      [episodeId |-> 4, content |-> <<"C", "a", "t", "\r", "\n", "c", "a", "t", "a", "l", "o", "g">>],
      [episodeId |-> 5, content |-> <<"b", "i", "r", "d">>],
      [episodeId |-> 9, content |-> <<"c", "a", "t", "\n", "d", "o", "g">>] }

TranscriptQueries ==
    { <<>>, <<" ">>, <<";">>, <<"c", "a", "t">>,
      <<"c", "a", "t", " ", "d", "o", "g">>,
      <<"c", "a", "t", ";", " ", "D", "o", "g">> }

NoOptions ==
    [limit |-> <<>>, contextLines |-> <<>>, terms |-> <<>>,
     matchMode |-> <<>>, hostId |-> <<>>, hostName |-> <<>>,
     caseSensitive |-> <<>>, wholeWord |-> <<>>,
     maxMatchesPerEpisode |-> <<>>]

TermLists ==
    { <<>>,
      << <<<<"c", "a", "t">>, <<"d", "o", "g">>>> >>,
      << <<<<"c", "a", "t">>, <<"c", "a", "t">>>> >>,
      << <<<<"D", "o", "g">>, <<" ">>>> >>,
      << << <<" ">> >> >> }

MatchModes == {<<>>, <<"any">>, <<"all">>, <<"phrase">>}

\* The calls: every query with every term list and mode; four of these
\* with the flags, the cap and the limit; the host filters; the context
\* window.
TermCalls ==
    { <<query, [NoOptions EXCEPT !.terms = terms, !.matchMode = matchMode]>> :
         query \in TranscriptQueries, terms \in TermLists,
         matchMode \in MatchModes }

TunedCalls ==
    LET CatDog == << <<<<"c", "a", "t">>, <<"d", "o", "g">>>> >>
        Shapes == { <<<<"c", "a", "t">>, <<>>, <<>> >>,
                    << <<>>, CatDog, <<"any">> >>,
                    << <<>>, CatDog, <<"all">> >>,
                    <<<<"c", "a", "t", " ", "d", "o", "g">>, <<>>, <<"phrase">> >> }
        Plain == [caseSensitive |-> <<>>, wholeWord |-> <<>>,
                  maxMatchesPerEpisode |-> <<>>, limit |-> <<>>]
        Tunings == { [Plain EXCEPT !.caseSensitive = <<TRUE>>],
                     [Plain EXCEPT !.wholeWord = <<TRUE>>],
                     [Plain EXCEPT !.maxMatchesPerEpisode = <<1>>],
                     [Plain EXCEPT !.maxMatchesPerEpisode = <<2>>],
                     [Plain EXCEPT !.limit = <<1>>],
                     [Plain EXCEPT !.maxMatchesPerEpisode = <<2>>,
                                   !.limit = <<1>>] }
    IN  { <<shape[1],
            [NoOptions EXCEPT !.terms = shape[2], !.matchMode = shape[3],
                              !.caseSensitive = tuning.caseSensitive,
                              !.wholeWord = tuning.wholeWord,
                              !.maxMatchesPerEpisode =
                                  tuning.maxMatchesPerEpisode,
                              !.limit = tuning.limit]>> :
             shape \in Shapes, tuning \in Tunings }

HostCalls ==
    { <<<<"c", "a", "t">>,
        [NoOptions EXCEPT !.hostId = hostId, !.hostName = hostName,
                          !.terms = shape[1], !.matchMode = shape[2]]>> :
         hostId \in {<<>>, <<1>>, <<7>>},
         hostName \in {<<>>, << <<"k", "e", "n">> >>,
                       << <<"k", "l", "a", "t", "t", "u">> >>,
                       << <<"z", "z", "z", "z", "z", "z">> >>},
         shape \in {<< <<>>, <<>> >>,
                    << << <<<<"c", "a", "t">>, <<"d", "o", "g">>>> >>, <<"all">> >>} }

ContextCalls ==
    { <<<<"c", "a", "t">>, [NoOptions EXCEPT !.contextLines = contextLines]>> :
         contextLines \in {<<0>>, <<1>>} }

TranscriptCalls == TermCalls \cup TunedCalls \cup HostCalls \cup ContextCalls

InitTranscripts ==
    /\ hosts = TranscriptHosts
    /\ episodes = TranscriptEpisodes
    /\ transcripts \in Lists(TranscriptPool, MaxTranscripts)
    /\ call = NoCall
    /\ results = <<>>
    /\ GatewayInit

SearchTranscripts(query, options) ==
    /\ call = NoCall
    /\ call' = [fn |-> "searchTranscripts", query |-> query,
                options |-> options]
    /\ results' = searchTranscripts(query, options)
    /\ UNCHANGED <<gateway, hosts, episodes, transcripts>>

NextTranscripts == \E c \in TranscriptCalls : SearchTranscripts(c[1], c[2])

SpecTranscripts == InitTranscripts /\ [][NextTranscripts]_vars

(* --------------------------- levenshteinDistance ----------------------- *)

\* The pairs of strings that levenshteinDistance is called with: all pairs
\* of strings of at most MaxWordLen characters over two letters, and the
\* pair kitten, sitting.
MaxWordLen == 3
DistancePairs ==
    (StringsUpTo({"a", "b"}, MaxWordLen) \X StringsUpTo({"a", "b"}, MaxWordLen))
    \cup { <<<<"k", "i", "t", "t", "e", "n">>,
             <<"s", "i", "t", "t", "i", "n", "g">>>>,
           <<<<"s", "i", "t", "t", "i", "n", "g">>,
             <<"k", "i", "t", "t", "e", "n">>>>,
           <<<<"k", "i", "t", "t", "e", "n">>,
             <<"k", "i", "t", "t", "e", "n">>>> }

LevenshteinDistance(a, b) ==
    /\ call = NoCall
    /\ call' = [fn |-> "levenshteinDistance", a |-> a, b |-> b]
    /\ results' = levenshteinDistance(a, b)
    /\ UNCHANGED <<gateway, hosts, episodes, transcripts>>

NextDistance == \E pair \in DistancePairs : LevenshteinDistance(pair[1], pair[2])

SpecDistance == Init /\ [][NextDistance]_vars

(* ------------------------- settlement of connect ----------------------- *)

\* The promise of mcpServer.connect(transport) awaited at line 746 settles,
\* and the event loop then runs the continuation of the handler: the
\* statements after the await or its catch block.
Settles(c) == (ConnectSuccess(c) \/ ConnectFailure(c)) /\ Quiet

\* The gateway with every pending connect eventually settled.
SpecSettled == Init /\ [][Next]_vars /\ \A c \in Conns : WF_vars(Settles(c))

(* ------------------------------- claims -------------------------------- *)

\* The admitted push-connections that have not completed: their connect is
\* pending or they are established.
Admitted == {c \in Conns : pc[c] \in {"connecting", "open"}}

Rejections == {"503 high load", "503 capacity", "503 unavailable"}

\* An /sse request that passes checkMemory and checkConcurrency and so
\* calls circuitBreaker.execute.
CallsExecute == \E c \in Conns, h \in HeapLevels :
                    SseRejectCircuit(c, h) \/ SseAdmit(c, h)

\* Some connection's connect is invoked by the step.
InvokesConnect == \E c \in Conns : pc[c] # "connecting" /\ pc'[c] = "connecting"

\* C1: activeRequests equals the number of admitted push-connections that
\* have not yet completed, and is never negative.
C1_CounterCountsAdmitted ==
    /\ activeRequests = Cardinality(Admitted)
    /\ activeRequests >= 0

\* C2: the number of admitted push-connections open at the same time never
\* exceeds MAX_CONCURRENT_REQUESTS.
C2_AtMostMaxAdmitted == Cardinality(Admitted) <= MAX_CONCURRENT_REQUESTS

\* C3: a rejected /sse attempt does not invoke connect and leaves the
\* in-flight counter, the breaker's state and failure count and the session
\* registry as they were.
C3_RejectionChangesNothing ==
    [][response' \in Rejections =>
         /\ ~InvokesConnect
         /\ UNCHANGED <<activeRequests, cbState, failures,
                        activeSseTransports>>]_vars

\* C4: a successful call while CLOSED restarts the failure count, the
\* breaker goes from CLOSED to OPEN exactly when the count so restarted
\* reaches the threshold, and it then records nextAttempt = now + cooldown.
C4_OpensOnFailuresSinceSuccess ==
    [][/\ (response' = "sse established" /\ cbState = "CLOSED")
              => failures' = 0
       /\ (cbState = "CLOSED" /\ cbState' = "OPEN")
              => /\ failures' = CIRCUIT_BREAKER_THRESHOLD
                 /\ nextAttempt' = now + CIRCUIT_BREAKER_TIMEOUT_MS
       /\ (response' = "connect failed" /\ cbState = "CLOSED"
             /\ failures' >= CIRCUIT_BREAKER_THRESHOLD)
              => cbState' = "OPEN"]_vars

\* C5: while the breaker is OPEN and the time is before nextAttempt, every
\* call of execute is answered "temporarily unavailable", connect is not
\* invoked and state, failures and nextAttempt stay as they are; the step
\* that opens the breaker leaves the time before nextAttempt, so the very
\* next call is rejected in this way.
C5_OpenRejectsBeforeResume ==
    [][/\ (cbState = "OPEN" /\ now < nextAttempt)
              => /\ ~InvokesConnect
                 /\ CallsExecute
                      => /\ response' = "503 unavailable"
                         /\ UNCHANGED <<cbState, failures, nextAttempt>>
       /\ response' = "503 unavailable"
              => /\ cbState = "OPEN" /\ now < nextAttempt
                 /\ UNCHANGED <<cbState, failures, nextAttempt, pc>>
       /\ (cbState # "OPEN" /\ cbState' = "OPEN")
              => now' < nextAttempt']_vars

\* C5 witness: a call has just been refused by the breaker, which opened at
\* the threshold and whose cooldown has not elapsed.
C5_Witness ==
    /\ response = "503 unavailable"
    /\ cbState = "OPEN"
    /\ failures = CIRCUIT_BREAKER_THRESHOLD
    /\ now < nextAttempt

\* C6: at most one call is let through to connect per HALF_OPEN period:
\* while the breaker is HALF_OPEN, at most one pending call is one that was
\* let through in HALF_OPEN.
C6_OneProbePerHalfOpen ==
    cbState = "HALF_OPEN" => Cardinality(probes) <= 1

\* C7: once the cooldown has elapsed a call is not refused by the breaker,
\* and whenever a call that was let through in HALF_OPEN succeeds, the
\* failure count becomes 0 and the state becomes CLOSED.
C7_ProbeSuccessCloses ==
    [][/\ (cbState = "OPEN" /\ now >= nextAttempt)
              => response' # "503 unavailable"
       /\ \A c \in probes :
             (pc[c] = "connecting" /\ pc'[c] = "open")
                => (cbState' = "CLOSED" /\ failures' = 0)]_vars

\* C8: POST /reset leaves the breaker CLOSED, with failure count 0 when it
\* was not CLOSED before and unchanged when it was; so whenever it answers
\* that the breaker is CLOSED, the breaker is CLOSED.
C8_ResetForcesClosed ==
    [][response' \in {"reset to CLOSED", "already CLOSED"} =>
         /\ cbState' = "CLOSED"
         /\ cbState # "CLOSED" => failures' = 0
         /\ cbState = "CLOSED" => UNCHANGED <<cbState, failures, nextAttempt>>
      ]_vars

\* C9: admitted work is raced against a timer of REQUEST_TIMEOUT_MS: no
\* connect is still pending once more than REQUEST_TIMEOUT_MS has passed
\* since it was invoked (it has been failed with a timeout by then).
C9_PendingWorkTimesOut ==
    \A c \in Conns : pc[c] = "connecting" => elapsed[c] <= REQUEST_TIMEOUT_MS

\* C10: a message is handed to its transport only when admission would
\* pass: the counter is below the maximum and the breaker is not OPEN
\* before its resume time.
C10_MessagesAreAdmitted ==
    response = "message handled" =>
        /\ activeRequests < MAX_CONCURRENT_REQUESTS
        /\ ~(cbState = "OPEN" /\ now < nextAttempt)

\* C11: the gates of a push-connection attempt are evaluated in the order
\* memory, concurrency, circuit breaker, and the answer is that of the first
\* failing gate: high load when the heap reading is above the threshold,
\* whatever the counter and the breaker; otherwise capacity when the counter
\* is at or above the maximum, whatever the breaker; otherwise temporarily
\* unavailable when the breaker is OPEN before its resume time; otherwise
\* the attempt is let through to connect.
C11_FirstFailingGateReports ==
    [][turn'.executed # <<>> =>
         IF turn'.heapUsedMB > MEMORY_THRESHOLD_MB
         THEN response' = "503 high load" /\ turn'.executed = PathMemory
         ELSE IF activeRequests >= MAX_CONCURRENT_REQUESTS
         THEN response' = "503 capacity" /\ turn'.executed = PathCapacity
         ELSE IF cbState = "OPEN" /\ now < nextAttempt
         THEN response' = "503 unavailable" /\ turn'.executed = PathCircuit
         ELSE response' = "none" /\ turn'.executed = PathAdmit]_vars

\* C11 witness: an attempt has just been answered high load while the
\* breaker was OPEN before its resume time, and checkMemory was the only
\* gate that ran.
C11_Witness ==
    /\ response = "503 high load"
    /\ turn.heapUsedMB > MEMORY_THRESHOLD_MB
    /\ turn.executed = PathMemory
    /\ cbState = "OPEN" /\ now < nextAttempt

C13_UnknownSessionRejected ==
    [][(turn'.connectionId # 0 /\ turn'.connectionId \notin activeSseTransports)
         => /\ response' = "404 no session"
            /\ UNCHANGED <<activeSseTransports, pc, pingInterval, clientGone,
                           activeRequests, breaker>>]_vars

\* C13 witness: a message for a session that is not registered has just been
\* answered 404 while another session is registered and established.
C13_Witness ==
    /\ response = "404 no session"
    /\ turn.connectionId \in Conns
    /\ turn.connectionId \notin activeSseTransports
    /\ \E c \in activeSseTransports : pc[c] = "open"

\* C14: every admitted connection is torn down exactly once, by the setup
\* error path or by the close event: a connection that is not admitted any
\* more has no registry entry and no heartbeat timer, the counter slots in
\* use are those of the admitted connections or fewer, and no connection
\* whose close event has been emitted stays established with its heartbeat
\* running.
C14_TornDownExactlyOnce ==
    \A c \in Conns :
        /\ pc[c] = "idle" => (c \notin activeSseTransports /\ c \notin pingInterval)
        /\ c \in clientGone => ~(pc[c] = "open" /\ c \in pingInterval)

\* The edit distance of two strings, by the textbook recurrence over their
\* prefixes: column i holds the distances of the first i characters of a to
\* every prefix of b.
RECURSIVE EditColumn(_, _, _)
EditColumn(a, b, i) ==
    IF i = 0 THEN [k \in 1..(Len(b) + 1) |-> k - 1]
    ELSE LET before == EditColumn(a, b, i - 1)
             Cell[k \in 1..(Len(b) + 1)] ==
                 IF k = 1 THEN i
                 ELSE Min3(before[k] + 1,
                           Cell[k - 1] + 1,
                           before[k - 1] + (IF a[i] = b[k - 1] THEN 0 ELSE 1))
         IN  [k \in 1..(Len(b) + 1) |-> Cell[k]]

EditDistance(a, b) == EditColumn(a, b, Len(a))[Len(b) + 1]

\* str contains part when case is ignored.
ContainsIgnoringCase(str, part) ==
    \E from \in 1..(Len(str) + 1) :
        /\ from + Len(part) - 1 <= Len(str)
        /\ \A k \in 1..Len(part) :
               toLowerCaseChar(str[from + k - 1]) = toLowerCaseChar(part[k])

\* The smaller edit distance from the query to a host's name and address,
\* all in lower case.
HostDistance(host, query) ==
    Min(EditDistance(toLowerCase(query), toLowerCase(host.host)),
        EditDistance(toLowerCase(query), toLowerCase(host.email)))

\* C20: searchHosts never mixes exact and fuzzy results.  If some host's
\* name or address contains the query (case ignored), exactly those hosts
\* are returned, tagged exact; otherwise exactly the hosts whose distance is
\* at most maxDistance (default 2) are returned, tagged fuzzy with that
\* distance, by ascending distance.
C20_HostsExactElseFuzzy ==
    call.fn = "searchHosts" =>
        LET query == call.query
            maxDistance == IF call.options.maxDistance = <<>> THEN 2
                           ELSE call.options.maxDistance[1]
            Exact == {h \in Range(hosts) :
                         \/ ContainsIgnoringCase(h.host, query)
                         \/ ContainsIgnoringCase(h.email, query)}
            Near == {h \in Range(hosts) : HostDistance(h, query) <= maxDistance}
            Returned == {results[k].host : k \in DOMAIN results}
        IN  /\ \A k, l \in DOMAIN results :
                   k # l => results[k].host # results[l].host
            /\ IF Exact # {}
               THEN /\ Returned = Exact
                    /\ \A k \in DOMAIN results : results[k].matchType = "exact"
               ELSE /\ Returned = Near
                    /\ \A k \in DOMAIN results :
                         /\ results[k].matchType = "fuzzy"
                         /\ results[k].matchDistance
                                = HostDistance(results[k].host, query)
                    /\ \A k, l \in DOMAIN results :
                         k < l => results[k].matchDistance
                                      <= results[l].matchDistance

\* C20 witness: no host contains the query, two hosts are within the given
\* distance, and the nearer one, which is the later one in hosts, is
\* returned first.
C20_Witness ==
    /\ call.fn = "searchHosts"
    /\ Len(results) = 2
    /\ results[1].matchType = "fuzzy"
    /\ results[1].matchDistance < results[2].matchDistance
    /\ hosts[1] = results[2].host

\* An episode's title, summary, tags or notes contains the query when case
\* is ignored.
EpisodeContains(ep, query) ==
    \/ ContainsIgnoringCase(ep.title, query)
    \/ ContainsIgnoringCase(ep.summary, query)
    \/ ContainsIgnoringCase(ep.tags, query)
    \/ ContainsIgnoringCase(ep.notes, query)

\* a comes before b in the lexicographic order of strings of digits.
LexBefore(a, b) ==
    \E k \in 1..(Len(b)) :
        /\ \A j \in 1..(k - 1) : j <= Len(a) /\ a[j] = b[j]
        /\ \/ k = Len(a) + 1
           \/ k <= Len(a) /\ charCode(a[k]) < charCode(b[k])

\* The episode passes the filters that the call gives.
PassesFilters(ep, options) ==
    /\ options.hostId # <<>> => ep.hostid = options.hostId[1]
    /\ options.seriesId # <<>> => ep.series = options.seriesId[1]
    /\ options.tag # <<>> => ContainsIgnoringCase(ep.tags, options.tag[1])
    /\ options.fromDate # <<>> => ~LexBefore(ep.date, options.fromDate[1])
    /\ options.toDate # <<>> => ~LexBefore(options.toDate[1], ep.date)

HasNonWhitespace(str) == \E k \in DOMAIN str : str[k] \notin {" ", "\t", "\n", "\r"}

Returned == {results[k].episode : k \in DOMAIN results}

\* C15 as stated: if any episode contains the query (case ignored) in its
\* title, summary, tags or notes, every result of searchEpisodes is tagged
\* exact; fuzzy results come only for a non-empty query whose exact path
\* finds nothing; exact and fuzzy results never share a response.
C15_AnyExactBlocksFuzzy ==
    call.fn = "searchEpisodes" =>
        /\ (\E ep \in Range(episodes) : EpisodeContains(ep, call.query))
              => \A k \in DOMAIN results : results[k].matchType = "exact"
        /\ (\E k \in DOMAIN results : results[k].matchType = "fuzzy")
              => /\ call.query # <<>>
                 /\ ~\E ep \in Range(episodes) :
                        /\ PassesFilters(ep, call.options)
                        /\ EpisodeContains(ep, call.query)
        /\ \A k, l \in DOMAIN results :
               results[k].matchType = results[l].matchType

\* C15: if any episode that passes the filters contains the query (case
\* ignored) in its title, summary, tags or notes, every result of
\* searchEpisodes is such an episode tagged exact; fuzzy results come only
\* for a query with a character other than whitespace that no episode
\* passing the filters contains; exact and fuzzy results never share a
\* response.
C15_FilteredExactBlocksFuzzy ==
    call.fn = "searchEpisodes" =>
        LET Hits == {ep \in Range(episodes) :
                        /\ PassesFilters(ep, call.options)
                        /\ EpisodeContains(ep, call.query)}
        IN  /\ Hits # {}
                  => /\ Returned \subseteq Hits
                     /\ \A k \in DOMAIN results :
                            results[k].matchType = "exact"
            /\ (\E k \in DOMAIN results : results[k].matchType = "fuzzy")
                  => HasNonWhitespace(call.query) /\ Hits = {}
            /\ \A k, l \in DOMAIN results :
                   results[k].matchType = results[l].matchType

\* C15 witness: an episode of another host contains the query, no episode
\* of the host asked for does, and the fuzzy fallback returns one of them.
C15_Witness ==
    /\ call.fn = "searchEpisodes"
    /\ \E ep \in Range(episodes) :
           EpisodeContains(ep, call.query) /\ ~PassesFilters(ep, call.options)
    /\ ~\E ep \in Range(episodes) :
           EpisodeContains(ep, call.query) /\ PassesFilters(ep, call.options)
    /\ results # <<>>
    /\ results[1].matchType = "fuzzy"

\* The words of a title: its longest runs of characters other than
\* whitespace, in lower case.
TitleWords(title) ==
    LET t == toLowerCase(title)
        IsSpace(k) == t[k] \in {" ", "\t", "\n", "\r"}
    IN  {SubSeq(t, i, j) : <<i, j>> \in
            {p \in (1..Len(t)) \X (1..Len(t)) :
                /\ p[1] <= p[2]
                /\ \A k \in p[1]..p[2] : ~IsSpace(k)
                /\ p[1] = 1 \/ IsSpace(p[1] - 1)
                /\ p[2] = Len(t) \/ IsSpace(p[2] + 1)}}

\* The distances from the query to the words of an episode's title.
WordDistances(ep, query) ==
    {EditDistance(toLowerCase(query), word) : word \in TitleWords(ep.title)}

\* The fuzzy fallback runs: the query has a character other than whitespace
\* and no episode that passes the filters contains it.
FuzzyRuns ==
    /\ call.fn = "searchEpisodes"
    /\ HasNonWhitespace(call.query)
    /\ ~\E ep \in Range(episodes) :
           PassesFilters(ep, call.options) /\ EpisodeContains(ep, call.query)

GivenOr(option, default) == IF option = <<>> THEN default ELSE option[1]

\* C18: when the fuzzy fallback of searchEpisodes runs, an episode that
\* passes the filters is a result, unless the limit cut it off, exactly if
\* some word of its title is within maxDistance (default 3) of the query;
\* every result is tagged fuzzy and records the distance to the nearest
\* word of the title.
C18_FuzzyByNearestTitleWord ==
    FuzzyRuns =>
        LET maxDistance == GivenOr(call.options.maxDistance, 3)
            limit == GivenOr(call.options.limit, 20)
            Near == {ep \in Range(episodes) :
                        /\ PassesFilters(ep, call.options)
                        /\ \E d \in WordDistances(ep, call.query) :
                               d <= maxDistance}
        IN  /\ Returned \subseteq Near
            /\ Len(results) < limit => Near \subseteq Returned
            /\ \A k \in DOMAIN results :
                   /\ results[k].matchType = "fuzzy"
                   /\ results[k].matchDistance
                          \in WordDistances(results[k].episode, call.query)
                   /\ \A d \in WordDistances(results[k].episode, call.query) :
                          results[k].matchDistance <= d

\* x sorts before y: by smaller distance when both are fuzzy and the
\* distances differ, else by later date.
SortsBefore(x, y) ==
    IF /\ x.matchType = "fuzzy" /\ y.matchType = "fuzzy"
       /\ x.matchDistance # y.matchDistance
    THEN x.matchDistance < y.matchDistance
    ELSE LexBefore(y.episode.date, x.episode.date)

\* C19: searchEpisodes returns the first limit (default 20) of all the
\* matches in sorted order: fuzzy results by ascending distance and then
\* descending date, exact results by descending date; no match that was
\* left out sorts before a returned one.
C19_SortedThenTruncated ==
    call.fn = "searchEpisodes" =>
        LET all == episodeMatches(call.query, call.options)
            limit == GivenOr(call.options.limit, 20)
        IN  /\ Len(results) = Min(limit, Len(all))
            /\ Range(results) \subseteq Range(all)
            /\ \A k, l \in DOMAIN results :
                   k < l => /\ results[k] # results[l]
                            /\ ~SortsBefore(results[l], results[k])
            /\ \A m \in Range(all) \ Range(results) :
                   \A k \in DOMAIN results : ~SortsBefore(m, results[k])

\* C19 witness: three fuzzy matches and a limit of two; the two nearest
\* are returned, at the same distance, the later one first although it
\* stands behind the other in episodes.
C19_Witness ==
    /\ call.fn = "searchEpisodes"
    /\ Len(episodeMatches(call.query, call.options)) = 3
    /\ Len(results) = 2
    /\ results[1].matchType = "fuzzy"
    /\ results[1].matchDistance = results[2].matchDistance
    /\ LexBefore(results[2].episode.date, results[1].episode.date)
    /\ \E i, j \in DOMAIN episodes :
           /\ i < j
           /\ episodes[i] = results[2].episode
           /\ episodes[j] = results[1].episode

\* The transcripts that searchTranscripts would return in mode all if every
\* one were read to its end: those of a known episode of a host let through
\* in which every term matches some line, the first limit of them.
TranscriptLines(t) == splitLines(t.content, <<>>, <<>>)

PassesHostFilter(t) ==
    /\ HasEpisode(t.episodeId)
    /\ resolvedHostIds(call.options) # {}
          => getEpisode(t.episodeId).hostid \in resolvedHostIds(call.options)

EveryTermMatches(t) ==
    LET ms == matchers(call.query, call.options)
    IN  \A i \in DOMAIN ms :
            \E k \in DOMAIN TranscriptLines(t) :
                test(ms[i], TranscriptLines(t)[k])

\* C16: searchTranscripts in mode all returns an episode that has a
\* transcript, passes the host filter and is reached before the limit
\* exactly if every active term matches at least one line of its
\* transcript; there is at least one active term.
C16_AllModeNeedsEveryTerm ==
    (/\ call.fn = "searchTranscripts"
     /\ resolvedMatchMode(call.query, call.options) = "all"
     /\ matchers(call.query, call.options) # <<>>) =>
        LET Qualifies(t) == PassesHostFilter(t) /\ EveryTermMatches(t)
            qualifying == SelectSeq(transcripts, Qualifies)
            limit == GivenOr(call.options.limit, 20)
        IN  /\ Len(results) = Min(limit, Len(qualifying))
            /\ \A k \in DOMAIN results :
                   results[k].episode.id = qualifying[k].episodeId

\* C17: when searchTranscripts is given a hostId or a hostName, every
\* returned episode belongs to the host with that id or to a host that the
\* name resolves to: the hosts containing the name, else the hosts within
\* distance 2 of it; a name that resolves to no host gives no results.
C17_OnlyResolvedHosts ==
    (/\ call.fn = "searchTranscripts"
     /\ call.options.hostId # <<>> \/ call.options.hostName # <<>>) =>
        LET name == call.options.hostName[1]
            Exact == {h \in Range(hosts) :
                         \/ ContainsIgnoringCase(h.host, name)
                         \/ ContainsIgnoringCase(h.email, name)}
            Near == {h \in Range(hosts) : HostDistance(h, name) <= 2}
            ByName == IF call.options.hostName = <<>> THEN {}
                      ELSE IF Exact # {} THEN {h.hostid : h \in Exact}
                      ELSE {h.hostid : h \in Near}
            ById == IF call.options.hostId = <<>> THEN {}
                    ELSE {call.options.hostId[1]}
        IN  \A k \in DOMAIN results :
                results[k].episode.hostid \in ById \cup ByName

\* The transcript is that of an episode of a host asked for: of one of the
\* hosts that the given id and name resolve to; every episode is, when
\* neither is given.
OfHostAskedFor(t, hostIds) ==
    /\ HasEpisode(t.episodeId)
    /\ (call.options.hostId # <<>> \/ call.options.hostName # <<>>)
          => getEpisode(t.episodeId).hostid \in hostIds

\* The episode of the transcript is among the results.
Included(t) == \E k \in DOMAIN results : results[k].episode.id = t.episodeId

\* The i-th transcript is reached before the limit: fewer than limit of
\* the transcripts in front of it are among the results.
Reached(i) ==
    Cardinality({j \in 1..(i - 1) : Included(transcripts[j])})
        < GivenOr(call.options.limit, 20)

\* The line contains the term as contiguous text, case ignored unless
\* caseSensitive is set.
ContainsLiteral(line, term) ==
    IF call.options.caseSensitive = <<TRUE>>
    THEN \E from \in 1..(Len(line) + 1) :
             /\ from + Len(term) - 1 <= Len(line)
             /\ SubSeq(line, from, from + Len(term) - 1) = term
    ELSE ContainsIgnoringCase(line, term)

\* The terms of the matchers that match a line.
TermsMatching(ms, line) ==
    {ms[i].term : i \in {j \in DOMAIN ms : test(ms[j], line)}}

Trimmed(str) ==
    LET Inner == {k \in DOMAIN str : str[k] \notin {" ", "\t", "\n", "\r"}}
    IN  IF Inner = {} THEN <<>>
        ELSE SubSeq(str, CHOOSE k \in Inner : \A l \in Inner : k <= l,
                         CHOOSE k \in Inner : \A l \in Inner : l <= k)

\* The strings of a list, trimmed, without the empty ones.
TrimmedNonEmpty(list) ==
    LET Kept == {k \in DOMAIN list : Trimmed(list[k]) # <<>>}
        Nth(n) == CHOOSE k \in Kept : Cardinality({l \in Kept : l < k}) = n - 1
    IN  [n \in 1..Cardinality(Kept) |-> Trimmed(list[Nth(n)])]

\* The parts of a query between the characters | , ; and line feed.
QueryParts(query) ==
    LET Cuts == {0, Len(query) + 1}
                   \cup {k \in DOMAIN query : query[k] \in {"|", ",", ";", "\n"}}
        Nth(n) == CHOOSE k \in Cuts : Cardinality({l \in Cuts : l < k}) = n - 1
    IN  [n \in 1..(Cardinality(Cuts) - 1) |->
            SubSeq(query, Nth(n) + 1, Nth(n + 1) - 1)]

\* The terms, the mode and the effective terms that the claim gives for a
\* call; explicit is the term list that counts as given.
TermsFor(explicit, query, matchMode) ==
    IF explicit # <<>> THEN explicit
    ELSE IF matchMode \in {"any", "all"}
    THEN TrimmedNonEmpty(QueryParts(query))
    ELSE IF Trimmed(query) # <<>> THEN <<Trimmed(query)>> ELSE <<>>

ModeFor(terms, matchMode) ==
    IF matchMode \in {"any", "all", "phrase"} THEN matchMode
    ELSE IF Len(terms) > 1 THEN "any" ELSE "phrase"

EffectiveFor(terms, query, matchMode) ==
    IF ModeFor(terms, matchMode) = "phrase"
    THEN IF Trimmed(query) # <<>> THEN <<Trimmed(query)>>
         ELSE IF terms # <<>> THEN <<terms[1]>> ELSE <<>>
    ELSE terms

\* The resolution of the call agrees with the terms given.
ResolvesTo(terms) ==
    LET matchMode == GivenOr(call.options.matchMode, "auto")
        mode == ModeFor(terms, matchMode)
        effective == EffectiveFor(terms, call.query, matchMode)
    IN  /\ effectiveTerms(call.query, call.options) = effective
        /\ resolvedMatchMode(call.query, call.options) = mode
        /\ effective = <<>> => results = <<>>
        /\ \A k \in DOMAIN results :
               /\ results[k].matchSummary.matchMode = mode
               /\ Range(results[k].matchSummary.matchedTerms)
                      \subseteq Range(effective)

C24_FiltersAlwaysApply ==
    call.fn = "searchEpisodes" =>
        LET Hits == {ep \in Range(episodes) :
                        /\ PassesFilters(ep, call.options)
                        /\ EpisodeContains(ep, call.query)}
        IN  /\ \A k \in DOMAIN results :
                   PassesFilters(results[k].episode, call.options)
            /\ Len(results) < GivenOr(call.options.limit, 20)
                  => Hits \subseteq Returned

\* C24 witness: a fuzzy result under two filters, while an episode within
\* the distance that fails one of them is left out.
C24_Witness ==
    /\ call.fn = "searchEpisodes"
    /\ call.options.hostId # <<>>
    /\ call.options.fromDate # <<>>
    /\ results # <<>>
    /\ results[1].matchType = "fuzzy"
    /\ \E ep \in Range(episodes) \ Returned :
           /\ ~PassesFilters(ep, call.options)
           /\ \E d \in WordDistances(ep, call.query) :
                  d <= GivenOr(call.options.maxDistance, 3)

\* What searchTranscripts would return for the call if no limit ended the
\* loop over the transcripts.
Unlimited ==
    scanTranscripts(transcripts, call.query,
                    [call.options EXCEPT !.limit = <<Len(transcripts)>>], <<>>)

\* C25: searchTranscripts returns at most limit (default 20) episodes: the
\* first limit of the qualifying ones in the order in which the transcripts
\* are stored, listed in that order.
C25_FirstLimitInStorageOrder ==
    (call.fn = "searchTranscripts"
       /\ effectiveTerms(call.query, call.options) # <<>>) =>
      \A all \in {Unlimited}, limit \in {GivenOr(call.options.limit, 20)} :
        /\ Len(results) <= limit
        /\ results = SubSeq(all, 1, Min(limit, Len(all)))
        /\ \A k, l \in DOMAIN results :
               k < l => \E i, j \in DOMAIN transcripts :
                            /\ i < j
                            /\ transcripts[i].episodeId = results[k].episode.id
                            /\ transcripts[j].episodeId = results[l].episode.id

\* C25 witness: two transcripts qualify and the limit is one; the episode
\* of the transcript stored first is returned.
C25_Witness ==
    /\ call.fn = "searchTranscripts"
    /\ call.options.limit = <<1>>
    /\ effectiveTerms(call.query, call.options) # <<>>
    /\ Len(Unlimited) = 2
    /\ Len(results) = 1
    /\ results[1].episode.id = transcripts[1].episodeId

\* The strings that one insertion, deletion or substitution of a character
\* of the alphabet makes of a string.
OneEdit(str, alphabet) ==
    {SubSeq(str, 1, k - 1) \o SubSeq(str, k + 1, Len(str)) : k \in DOMAIN str}
    \cup {SubSeq(str, 1, k - 1) \o <<c>> \o SubSeq(str, k + 1, Len(str)) :
             k \in DOMAIN str, c \in alphabet}
    \cup {SubSeq(str, 1, k) \o <<c>> \o SubSeq(str, k + 1, Len(str)) :
             k \in 0..Len(str), c \in alphabet}

\* The least number of edits that lead from any of the strings reached to
\* the target, n edits having led to the strings reached.
RECURSIVE EditsNeeded(_, _, _, _)
EditsNeeded(reached, target, alphabet, n) ==
    IF target \in reached THEN n
    ELSE EditsNeeded(reached \cup UNION {OneEdit(str, alphabet) : str \in reached},
                     target, alphabet, n + 1)

\* C26: levenshteinDistance(a, b) is the least number of insertions,
\* deletions and substitutions of one character that turn a into b; it is
\* 0 for equal strings, the same in both directions, and 3 for kitten and
\* sitting.
C26_LeastNumberOfEdits ==
    call.fn = "levenshteinDistance" =>
        /\ (Len(call.a) <= MaxWordLen /\ Len(call.b) <= MaxWordLen)
              => results = EditsNeeded({call.a}, call.b,
                                       Range(call.a) \cup Range(call.b), 0)
        /\ call.a = call.b => results = 0
        /\ results = levenshteinDistance(call.b, call.a)
        /\ (Len(call.a) = 6 /\ Len(call.b) = 7) => results = 3

\* C26 witness: a shorter string is turned into a longer one by one
\* insertion and one substitution.
C26_Witness ==
    /\ call.fn = "levenshteinDistance"
    /\ Len(call.a) = 2
    /\ Len(call.b) = 3
    /\ results = 2

\* The connect of a call that was let through in HALF_OPEN rejects in this
\* step.
ProbeFails(c) ==
    /\ c \in probes
    /\ pc[c] = "connecting"
    /\ pc'[c] = "idle"
    /\ response' = "connect failed"

\* C27: when a call that was let through while the breaker was HALF_OPEN
\* fails, the failure count goes up by one and the breaker is OPEN
\* afterwards, with nextAttempt = time of the failure + cooldown.
C27_FailedProbeReopens ==
    [][\A c \in Conns :
          ProbeFails(c) =>
              /\ failures' = failures + 1
              /\ cbState' = "OPEN"
              /\ nextAttempt' = now + CIRCUIT_BREAKER_TIMEOUT_MS]_vars

\* The state of the breaker and its failure count agree.
StateAgreesWithFailures ==
    /\ cbState = "CLOSED" => failures < CIRCUIT_BREAKER_THRESHOLD
    /\ cbState \in {"OPEN", "HALF_OPEN"} => failures >= CIRCUIT_BREAKER_THRESHOLD

\* A change of the state of the breaker is one of the five that exist; from
\* OPEN to CLOSED only POST /reset leads.
AllowedChange ==
    cbState' # cbState =>
        /\ <<cbState, cbState'>> \in
               { <<"CLOSED", "OPEN">>, <<"OPEN", "HALF_OPEN">>,
                 <<"HALF_OPEN", "CLOSED">>, <<"HALF_OPEN", "OPEN">>,
                 <<"OPEN", "CLOSED">> }
        /\ <<cbState, cbState'>> = <<"OPEN", "CLOSED">>
              => response' = "reset to CLOSED"

\* C28: in every reachable state CLOSED implies failures < threshold and
\* OPEN or HALF_OPEN implies failures >= threshold; the state changes only
\* from CLOSED to OPEN, OPEN to HALF_OPEN, HALF_OPEN to CLOSED, HALF_OPEN to
\* OPEN, and from OPEN to CLOSED by a manual reset.
C28_StateAndFailuresAgree ==
    [](StateAgreesWithFailures) /\ [][AllowedChange]_vars

\* C28 witness: a manual reset has closed the breaker while a call is in
\* flight.
C28_Witness ==
    /\ response = "reset to CLOSED"
    /\ cbState = "CLOSED"
    /\ failures = 0
    /\ \E c \in Conns : pc[c] = "connecting"

\* A list without the repetitions of its elements.
WithoutRepetition(list) ==
    LET Kept == {k \in DOMAIN list : \A j \in 1..(k - 1) : list[j] # list[k]}
        Nth(n) == CHOOSE k \in Kept : Cardinality({l \in Kept : l < k}) = n - 1
    IN  [n \in 1..Cardinality(Kept) |-> list[Nth(n)]]

\* C29: in mode all, searchTranscripts returns for a term list with
\* repeated terms the same episodes as for the list without the
\* repetitions.
C29_RepetitionChangesNothing ==
    (/\ call.fn = "searchTranscripts"
     /\ call.options.matchMode = <<"all">>
     /\ call.options.terms # <<>>) =>
        \A once \in {searchTranscripts(call.query,
                        [call.options EXCEPT
                            !.terms = <<WithoutRepetition(call.options.terms[1])>>])} :
            {results[k].episode.id : k \in DOMAIN results}
                = {once[k].episode.id : k \in DOMAIN once}

\* The client of connection c went away while its connect was pending.
ClosedWhilePending(c) == pc[c] = "connecting" /\ c \in clientGone

\* Nothing of connection c is left: no registry entry, no heartbeat timer,
\* no handler holding a slot of the in-flight counter.
TornDown(c) ==
    /\ c \notin activeSseTransports
    /\ c \notin pingInterval
    /\ pc[c] = "idle"

\* C30: a connection whose client disconnects while connect is pending is
\* eventually torn down: registry entry removed, no heartbeat timer left,
\* counter slot released.
C30_ClosedWhilePendingIsTornDown ==
    \A c \in Conns : ClosedWhilePending(c) ~> TornDown(c)

====
